---- MODULE Spec2Model ----
(***************************************************************************)
(* The process pool of pebble/process/pool.py as a state machine.          *)
(*                                                                         *)
(* Threads of the pool process: the client (submit, cancel, stop), the     *)
(* task scheduler, the status monitor (pool_manager_loop) and the message  *)
(* pump (message_manager_loop).  Worker processes run worker_process.      *)
(* The pool threads share the Task Registry (TaskManager.tasks) and the    *)
(* Worker Registry (WorkerManager.workers) without a lock, so the steps of *)
(* the model are the calls of the TaskManager and WorkerManager methods;   *)
(* the threads interleave between those calls.                             *)
(*                                                                         *)
(* Task identities are 1..MaxTasks in submission order.  A worker's PID is *)
(* its index in procs.  The initializer and deinitializer are not          *)
(* configured (their default).                                             *)
(*                                                                         *)
(* The test of context.alive that heads each loop is taken together with   *)
(* the step that follows it (scheduler: with the step that precedes it,    *)
(* so that a scheduler blocked in task_queue.get() still takes the next    *)
(* item after the pool has been stopped).                                  *)
(*                                                                         *)
(* The channel lock is acquired with a timeout.  A worker retries, so for  *)
(* a worker the timeout is no step; stop_worker gives up, so stop_worker   *)
(* on a held lock is a step that changes nothing.                          *)
(*                                                                         *)
(* sent, taken and acked are history variables: the tasks written as       *)
(* NewTask, the non-cancelled tasks taken from the Submission Queue and    *)
(* the tasks acknowledged, each in order.                                  *)
(*                                                                         *)
(* Spec is the pool with every interleaving.  FairSpec adds that the       *)
(* threads, the workers and the clock keep running, for the properties     *)
(* that say something eventually happens.  MessageSpec runs the message    *)
(* pump alone, from every Task Registry and every message, for the frame   *)
(* of process_message.                                                     *)
(***************************************************************************)
EXTENDS Integers, Sequences, FiniteSets

\* ---------------------------------------------------------------- bounds
MaxTasks == 2
MaxWorkers == 2
MaxLimit == 1
MaxTime == 3
\* workers plus submitted tasks
MaxLoad == 3

\* ------------------------------------------------------------- constants
EX_OK == 0
EXIT_CRASH == 123
SIGTERM == 15

Tasks == 1..MaxTasks
Timeouts == {0, 1}
Sentinel == 0
Payload == 0
NoTask == 0
Free == 0

VARIABLES
    workers_number, task_limit,
    state, task_queue, submitted,
    timeout, cancelled, metadata, timestamp, results,
    tasks, callbacks,
    workers, procs, lock,
    to_workers, to_pool,
    spc, stask,
    mpc, mtimeout, mcancelled, mtodo, mstop, mexpired,
    ppc,
    cpc, cstop,
    now,
    sent, taken, acked

vars == <<workers_number, task_limit, state, task_queue, submitted,
          timeout, cancelled, metadata, timestamp, results, tasks, callbacks,
          workers, procs, lock, to_workers, to_pool, spc, stask,
          mpc, mtimeout, mcancelled, mtodo, mstop, mexpired, ppc, cpc, cstop,
          now, sent, taken, acked>>

config == <<workers_number, task_limit>>
taskv == <<timeout, cancelled, metadata, timestamp, results, tasks, callbacks>>
workerv == <<workers, procs, lock>>
chanv == <<to_workers, to_pool>>
schedv == <<spc, stask>>
monv == <<mpc, mtimeout, mcancelled, mtodo, mstop, mexpired>>
clientv == <<cpc, cstop>>
ghostv == <<sent, taken, acked>>

\* ---------------------------------------------------------------- helpers
Min(S) == CHOOSE x \in S : \A y \in S : x <= y

RECURSIVE SetToSeq(_)
SetToSeq(S) == IF S = {} THEN <<>> ELSE <<Min(S)>> \o SetToSeq(S \ {Min(S)})

Range(s) == {s[i] : i \in 1..Len(s)}

\* context.alive
Alive == state = "RUNNING"

\* Task.started
Started(t) == timestamp[t] > 0

\* result values
Value == [kind |-> "Value", code |-> 0]
TimeoutError == [kind |-> "Timeout", code |-> 0]
TaskCancelled == [kind |-> "Cancelled", code |-> 0]
ProcessExpired(c) == [kind |-> "ProcessExpired", code |-> c]

\* messages
NewTask(t, p) == [id |-> t, payload |-> p]
Acknowledgement(w, t) == [type |-> "Ack", worker |-> w, task |-> t]
Results(t) == [type |-> "Results", worker |-> 0, task |-> t]

\* a spawned worker process, about to enter fetch_task
NewProc == [pc |-> "poll", task |-> NoTask, count |-> 0, exitcode |-> EX_OK]

IsAlive(w) == procs[w].pc # "dead"

\* ------------------------------------------------------------------- Init
\* the state after Pool construction and Pool._start_pool
Init ==
    /\ workers_number \in 1..MaxWorkers
    /\ task_limit \in 0..MaxLimit
    /\ state = "RUNNING"
    /\ task_queue = <<>>
    /\ submitted = 0
    /\ timeout = [t \in Tasks |-> 0]
    /\ cancelled = [t \in Tasks |-> FALSE]
    /\ metadata = [t \in Tasks |-> Payload]
    /\ timestamp = [t \in Tasks |-> 0]
    /\ results = [t \in Tasks |-> <<>>]
    /\ tasks = {}
    /\ callbacks = 0
    /\ workers = 1..workers_number
    /\ procs = [w \in 1..workers_number |-> NewProc]
    /\ lock = Free
    /\ to_workers = <<>>
    /\ to_pool = <<>>
    /\ spc = "get"
    /\ stask = NoTask
    /\ mpc = "idle"
    /\ mtimeout = <<>>
    /\ mcancelled = <<>>
    /\ mtodo = <<>>
    /\ mstop = <<>>
    /\ mexpired = <<>>
    /\ ppc = "run"
    /\ cpc = "run"
    /\ cstop = <<>>
    /\ now = 1
    /\ sent = <<>>
    /\ taken = <<>>
    /\ acked = <<>>

\* ------------------------------------------------------------ TaskManager
\* a register that stores nothing
RegisterNothing(t) == tasks' = tasks

\* TaskManager.register
Register(t) == tasks' = tasks \cup {t}

\* task_start without the KeyError: a missing entry is started
TaskStartUnguarded(t, w) ==
    /\ metadata' = [metadata EXCEPT ![t] = w]
    /\ timestamp' = [timestamp EXCEPT ![t] = now]

\* TaskManager.task_start
TaskStart(t, w) ==
    IF t \in tasks
    THEN /\ metadata' = [metadata EXCEPT ![t] = w]
         /\ timestamp' = [timestamp EXCEPT ![t] = now]
    ELSE UNCHANGED <<metadata, timestamp>>

\* task_done without the KeyError: a missing entry is resolved again
TaskDoneUnguarded(t, r) ==
    /\ tasks' = tasks \ {t}
    /\ results' = [results EXCEPT ![t] = Append(@, r)]
    /\ callbacks' = callbacks + 1

\* TaskManager.task_done
TaskDone(t, r) ==
    IF t \in tasks
    THEN /\ tasks' = tasks \ {t}
         /\ results' = [results EXCEPT ![t] = Append(@, r)]
         /\ callbacks' = callbacks + 1
    ELSE UNCHANGED <<tasks, results, callbacks>>

\* has_timeout with >= in place of >
HasTimeoutInclusive(t) ==
    IF timeout[t] # 0 /\ Started(t)
    THEN now - timestamp[t] >= timeout[t]
    ELSE FALSE

\* TaskManager.has_timeout
HasTimeout(t) ==
    IF timeout[t] # 0 /\ Started(t)
    THEN now - timestamp[t] > timeout[t]
    ELSE FALSE

\* TaskManager.inspect_tasks, first tuple
InspectTimeout == SetToSeq({t \in tasks : HasTimeout(t)})

\* inspect_tasks without the test of t.started
InspectCancelledUnstarted == SetToSeq({t \in tasks : cancelled[t]})

\* TaskManager.inspect_tasks, second tuple
InspectCancelled == SetToSeq({t \in tasks : Started(t) /\ cancelled[t]})

\* PoolManager.worker_id_lookup
WorkerIdLookup(w) ==
    IF \E t \in tasks : metadata[t] = w
    THEN Min({t \in tasks : metadata[t] = w})
    ELSE NoTask

\* ---------------------------------------------------------- WorkerManager
\* a process that has exited with code c
Dead(c) == [pc |-> "dead", task |-> NoTask, count |-> 0, exitcode |-> c]

\* pebble.process.utils.stop: the process is terminated, then killed
Stop(p) == IF p.pc = "dead" THEN p ELSE Dead(-SIGTERM)

\* stop_worker without the channel lock
StopWorkerUnlocked(w) ==
    IF w \notin workers
    THEN UNCHANGED <<workers, procs>>
    ELSE /\ workers' = workers \ {w}
         /\ procs' = [procs EXCEPT ![w] = Stop(@)]

\* stop_worker popping the worker before it takes the lock
StopWorkerPopFirst(w) ==
    IF w \notin workers
    THEN UNCHANGED <<workers, procs>>
    ELSE /\ workers' = workers \ {w}
         /\ procs' = IF lock # Free THEN procs ELSE [procs EXCEPT ![w] = Stop(@)]

\* WorkerManager.stop_worker
StopWorker(w) ==
    IF lock # Free
    THEN UNCHANGED <<workers, procs>>                      \* TimeoutError
    ELSE IF w \notin workers
         THEN UNCHANGED <<workers, procs>>                 \* KeyError
         ELSE /\ workers' = workers \ {w}
              /\ procs' = [procs EXCEPT ![w] = Stop(@)]

\* inspect_workers removing only the workers it reports
ExpiredAbnormal == {w \in workers : ~IsAlive(w) /\ procs[w].exitcode # EX_OK}

\* WorkerManager.inspect_workers, the expired workers
Expired == {w \in workers : ~IsAlive(w)}

\* inspect_workers reporting every expired worker, whatever its exit code
ExpiredReportAll(E) ==
    LET bad == SetToSeq(E)
    IN  [i \in 1..Len(bad) |-> <<bad[i], procs[bad[i]].exitcode>>]

\* WorkerManager.inspect_workers, the generator it returns
ExpiredReport(E) ==
    LET bad == SetToSeq({w \in E : procs[w].exitcode # EX_OK})
    IN  [i \in 1..Len(bad) |-> <<bad[i], procs[bad[i]].exitcode>>]

\* WorkerManager.create_workers
CreateCount == workers_number - Cardinality(workers)

\* ------------------------------------------------------------------ client
\* BasePool.schedule: a new Task is put on the Submission Queue
Submit(to) ==
    /\ cpc = "run"
    /\ submitted < MaxTasks
    /\ workers_number + submitted < MaxLoad
    /\ submitted' = submitted + 1
    /\ timeout' = [timeout EXCEPT ![submitted + 1] = to]
    /\ task_queue' = Append(task_queue, submitted + 1)
    /\ UNCHANGED <<config, state, cancelled, metadata, timestamp, results,
                   tasks, callbacks, workerv, chanv, schedv, monv, ppc,
                   clientv, now, ghostv>>

\* Task.cancel
Cancel(t) ==
    /\ t <= submitted
    /\ ~cancelled[t]
    /\ results[t] = <<>>
    /\ cancelled' = [cancelled EXCEPT ![t] = TRUE]
    /\ UNCHANGED <<config, state, task_queue, submitted, timeout, metadata,
                   timestamp, results, tasks, callbacks, workerv, chanv,
                   schedv, monv, ppc, clientv, now, ghostv>>

\* Pool.stop, super().stop(): the state leaves RUNNING
PoolStop ==
    /\ cpc = "run"
    /\ state' = "STOPPED"
    /\ cpc' = "put"
    /\ UNCHANGED <<config, task_queue, submitted, taskv, workerv, chanv,
                   schedv, monv, ppc, cstop, now, ghostv>>

\* Pool.stop, task_queue.put(None)
PoolStopPut ==
    /\ cpc = "put"
    /\ task_queue' = Append(task_queue, Sentinel)
    /\ cpc' = "join"
    /\ UNCHANGED <<config, state, submitted, taskv, workerv, chanv,
                   schedv, monv, ppc, cstop, now, ghostv>>

\* Pool._stop_pool, WorkerManager.stop_workers: tuple(self.workers.keys())
StopWorkers ==
    /\ cpc = "join"
    /\ cstop' = SetToSeq(workers)
    /\ cpc' = IF workers = {} THEN "done" ELSE "stopping"
    /\ UNCHANGED <<config, state, task_queue, submitted, taskv, workerv,
                   chanv, schedv, monv, ppc, now, ghostv>>

\* WorkerManager.stop_workers, one stop_worker call
StopWorkersStep ==
    /\ cpc = "stopping"
    /\ StopWorker(Head(cstop))
    /\ cstop' = Tail(cstop)
    /\ cpc' = IF Tail(cstop) = <<>> THEN "done" ELSE "stopping"
    /\ UNCHANGED <<config, state, task_queue, submitted, taskv, lock, chanv,
                   schedv, monv, ppc, now, ghostv>>

\* --------------------------------------------------------------- scheduler
\* a queue that hands out its newest item
QueueGetLast(q) == <<q[Len(q)], SubSeq(q, 1, Len(q) - 1)>>

\* task_queue.get(): the item taken and the queue that is left
QueueGet(q) == <<Head(q), Tail(q)>>

\* the test of the item without task.cancelled
IsLiveTaskAnyway(item) == item # Sentinel

\* pool_get_next_task: isinstance(task, Task) and not task.cancelled
IsLiveTask(item) == item # Sentinel /\ ~cancelled[item]

\* pool_get_next_task: task_queue.get() and the test of the item
\* (context.alive was tested when the previous schedule() returned)
SchedGet ==
    /\ spc = "get"
    /\ task_queue # <<>>
    /\ task_queue' = QueueGet(task_queue)[2]
    /\ LET item == QueueGet(task_queue)[1] IN
       IF IsLiveTask(item)
       THEN /\ stask' = item
            /\ spc' = "register"
            /\ taken' = Append(taken, item)
            /\ UNCHANGED callbacks
       ELSE /\ callbacks' = callbacks + 1
            /\ spc' = "done"
            /\ UNCHANGED <<stask, taken>>
    /\ UNCHANGED <<config, state, submitted, timeout, cancelled, metadata,
                   timestamp, results, tasks, workerv, chanv, monv, ppc,
                   clientv, now, sent, acked>>

\* PoolManager.schedule: task_manager.register
SchedRegister ==
    /\ spc = "register"
    /\ Register(stask)
    /\ spc' = "dispatch"
    /\ UNCHANGED <<config, state, task_queue, submitted, timeout, cancelled,
                   metadata, timestamp, results, callbacks, workerv, chanv,
                   stask, monv, ppc, clientv, now, ghostv>>

\* PoolManager.schedule: worker_manager.dispatch; then while context.alive
SchedDispatch ==
    /\ spc = "dispatch"
    /\ to_workers' = Append(to_workers, NewTask(stask, metadata[stask]))
    /\ sent' = Append(sent, stask)
    /\ spc' = IF Alive THEN "get" ELSE "done"
    /\ stask' = NoTask
    /\ UNCHANGED <<config, state, task_queue, submitted, taskv, workerv,
                   to_pool, monv, ppc, clientv, now, taken, acked>>

\* ---------------------------------------------------------- status monitor
\* the worker tags of timeout + cancelled, PoolManager.update_tasks line 144
WorkerTags(ts) == [i \in 1..Len(ts) |-> metadata[ts[i]]]

\* pool_manager_loop: while context.alive; update_tasks: inspect_tasks
MonInspectTasks ==
    /\ mpc = "idle"
    /\ Alive
    /\ mtimeout' = InspectTimeout
    /\ mcancelled' = InspectCancelled
    /\ mtodo' = [i \in 1..Len(InspectTimeout) |-> <<InspectTimeout[i], TimeoutError>>]
                \o [i \in 1..Len(InspectCancelled) |-> <<InspectCancelled[i], TaskCancelled>>]
    /\ mpc' = IF InspectTimeout \o InspectCancelled = <<>> THEN "workers" ELSE "resolve"
    /\ UNCHANGED <<config, state, task_queue, submitted, taskv, workerv, chanv,
                   schedv, mstop, mexpired, ppc, clientv, now, ghostv>>

\* pool_manager_loop: the loop ends when the pool is not alive
MonExit ==
    /\ mpc = "idle"
    /\ ~Alive
    /\ mpc' = "done"
    /\ UNCHANGED <<config, state, task_queue, submitted, taskv, workerv, chanv,
                   schedv, mtimeout, mcancelled, mtodo, mstop, mexpired, ppc,
                   clientv, now, ghostv>>

\* update_tasks: one task_done of the two for loops
MonTaskDone ==
    /\ mpc = "resolve"
    /\ TaskDone(Head(mtodo)[1], Head(mtodo)[2])
    /\ mtodo' = Tail(mtodo)
    /\ IF Tail(mtodo) = <<>>
       THEN /\ mpc' = "stop"
            /\ mstop' = WorkerTags(mtimeout \o mcancelled)
       ELSE UNCHANGED <<mpc, mstop>>
    /\ UNCHANGED <<config, state, task_queue, submitted, timeout, cancelled,
                   metadata, timestamp, workerv, chanv, schedv, mtimeout,
                   mcancelled, mexpired, ppc, clientv, now, ghostv>>

\* update_tasks: one stop_worker of the last for loop
MonStopWorker ==
    /\ mpc = "stop"
    /\ StopWorker(Head(mstop))
    /\ mstop' = Tail(mstop)
    /\ IF Tail(mstop) = <<>>
       THEN /\ mpc' = "workers"
            /\ mtimeout' = <<>>
            /\ mcancelled' = <<>>
       ELSE UNCHANGED <<mpc, mtimeout, mcancelled>>
    /\ UNCHANGED <<config, state, task_queue, submitted, taskv, lock, chanv,
                   schedv, mtodo, mexpired, ppc, clientv, now, ghostv>>

\* update_workers: inspect_workers
MonInspectWorkers ==
    /\ mpc = "workers"
    /\ workers' = workers \ Expired
    /\ mexpired' = ExpiredReport(Expired)
    /\ mpc' = IF ExpiredReport(Expired) = <<>> THEN "create" ELSE "expire"
    /\ UNCHANGED <<config, state, task_queue, submitted, taskv, procs, lock,
                   chanv, schedv, mtimeout, mcancelled, mtodo, mstop, ppc,
                   clientv, now, ghostv>>

\* update_workers: worker_id_lookup and task_done for one expired worker
MonExpire ==
    /\ mpc = "expire"
    /\ LET w == Head(mexpired)[1]
           c == Head(mexpired)[2]
           t == WorkerIdLookup(w)
       IN  IF t # NoTask
           THEN TaskDone(t, ProcessExpired(c))
           ELSE UNCHANGED <<tasks, results, callbacks>>
    /\ mexpired' = Tail(mexpired)
    /\ mpc' = IF Tail(mexpired) = <<>> THEN "create" ELSE "expire"
    /\ UNCHANGED <<config, state, task_queue, submitted, timeout, cancelled,
                   metadata, timestamp, workerv, chanv, schedv, mtimeout,
                   mcancelled, mtodo, mstop, ppc, clientv, now, ghostv>>

\* update_workers: create_workers, then time.sleep(SLEEP_UNIT)
MonCreateWorkers ==
    /\ mpc = "create"
    /\ workers' = workers \cup (Len(procs) + 1 .. Len(procs) + CreateCount)
    /\ procs' = procs \o [i \in 1..CreateCount |-> NewProc]
    /\ mpc' = "idle"
    /\ UNCHANGED <<config, state, task_queue, submitted, taskv, lock, chanv,
                   schedv, mtimeout, mcancelled, mtodo, mstop, mexpired, ppc,
                   clientv, now, ghostv>>

\* ------------------------------------------------------------ message pump
\* get_next_message yields channel.recv(); process_message, Acknowledgement
PumpAck ==
    /\ ppc = "run"
    /\ Alive
    /\ to_pool # <<>>
    /\ Head(to_pool).type = "Ack"
    /\ TaskStart(Head(to_pool).task, Head(to_pool).worker)
    /\ to_pool' = Tail(to_pool)
    /\ UNCHANGED <<config, state, task_queue, submitted, timeout, cancelled,
                   results, tasks, callbacks, workerv, to_workers, schedv,
                   monv, ppc, clientv, now, ghostv>>

\* get_next_message yields channel.recv(); process_message, Results
PumpResults ==
    /\ ppc = "run"
    /\ Alive
    /\ to_pool # <<>>
    /\ Head(to_pool).type = "Results"
    /\ TaskDone(Head(to_pool).task, Value)
    /\ to_pool' = Tail(to_pool)
    /\ UNCHANGED <<config, state, task_queue, submitted, timeout, cancelled,
                   metadata, timestamp, workerv, to_workers, schedv, monv,
                   ppc, clientv, now, ghostv>>

\* get_next_message yields NoMessage(); process_message does nothing
PumpNoMessage ==
    /\ ppc = "run"
    /\ Alive
    /\ to_pool = <<>>
    /\ UNCHANGED vars

\* get_next_message: the loop ends when the pool is not alive
PumpExit ==
    /\ ppc = "run"
    /\ ~Alive
    /\ ppc' = "done"
    /\ UNCHANGED <<config, state, task_queue, submitted, taskv, workerv, chanv,
                   schedv, monv, clientv, now, ghostv>>

\* ---------------------------------------------------------- worker process
SetProc(w, p) == procs' = [procs EXCEPT ![w] = p]

\* the loop condition with <= in place of <
MoreTasksInclusive(n) == task_limit = 0 \/ n <= task_limit

\* worker_get_next_task: the loop condition
MoreTasks(n) == task_limit = 0 \/ n < task_limit

\* fetch_task: channel.poll() returns when a message can be read
WorkerPoll(w) ==
    /\ procs[w].pc = "poll"
    /\ to_workers # <<>>
    /\ SetProc(w, [procs[w] EXCEPT !.pc = "lock"])
    /\ UNCHANGED <<config, state, task_queue, submitted, taskv, workers, lock,
                   chanv, schedv, monv, ppc, clientv, now, ghostv>>

\* task_transaction entered without the lock
WorkerAcquireUnlocked(w) ==
    /\ procs[w].pc = "lock"
    /\ lock' = w
    /\ SetProc(w, [procs[w] EXCEPT !.pc = "recv"])
    /\ UNCHANGED <<config, state, task_queue, submitted, taskv, workers,
                   chanv, schedv, monv, ppc, clientv, now, ghostv>>

\* task_transaction: with channel.lock (a TimeoutError is retried)
WorkerAcquire(w) ==
    /\ procs[w].pc = "lock"
    /\ lock = Free
    /\ lock' = w
    /\ SetProc(w, [procs[w] EXCEPT !.pc = "recv"])
    /\ UNCHANGED <<config, state, task_queue, submitted, taskv, workers,
                   chanv, schedv, monv, ppc, clientv, now, ghostv>>

\* task_transaction: channel.recv(), blocking
WorkerRecv(w) ==
    /\ procs[w].pc = "recv"
    /\ to_workers # <<>>
    /\ to_workers' = Tail(to_workers)
    /\ SetProc(w, [procs[w] EXCEPT !.pc = "ack", !.task = Head(to_workers).id])
    /\ UNCHANGED <<config, state, task_queue, submitted, taskv, workers, lock,
                   to_pool, schedv, monv, ppc, clientv, now, ghostv>>

\* task_transaction: channel.send(Acknowledgement), the lock is released
WorkerAck(w) ==
    /\ procs[w].pc = "ack"
    /\ to_pool' = Append(to_pool, Acknowledgement(w, procs[w].task))
    /\ lock' = Free
    /\ SetProc(w, [procs[w] EXCEPT !.pc = "exec", !.count = @ + 1])
    /\ acked' = Append(acked, procs[w].task)
    /\ UNCHANGED <<config, state, task_queue, submitted, taskv, workers,
                   to_workers, schedv, monv, ppc, clientv, now, sent, taken>>

\* worker_process: the payload returns or raises, send_results, next loop test
WorkerResults(w) ==
    /\ procs[w].pc = "exec"
    /\ to_pool' = Append(to_pool, Results(procs[w].task))
    /\ SetProc(w, [procs[w] EXCEPT !.pc = IF MoreTasks(procs[w].count)
                                           THEN "poll" ELSE "exit",
                                   !.task = NoTask])
    /\ UNCHANGED <<config, state, task_queue, submitted, taskv, workers, lock,
                   to_workers, schedv, monv, ppc, clientv, now, ghostv>>

\* the payload ends the process (os._exit(123) in the tests)
WorkerCrash(w) ==
    /\ procs[w].pc = "exec"
    /\ SetProc(w, Dead(EXIT_CRASH))
    /\ UNCHANGED <<config, state, task_queue, submitted, taskv, workers, lock,
                   chanv, schedv, monv, ppc, clientv, now, ghostv>>

\* worker_process: os._exit(os.EX_OK) after the task limit
WorkerExit(w) ==
    /\ procs[w].pc = "exit"
    /\ SetProc(w, Dead(EX_OK))
    /\ UNCHANGED <<config, state, task_queue, submitted, taskv, workers, lock,
                   chanv, schedv, monv, ppc, clientv, now, ghostv>>

\* ------------------------------------------------------------------- time
\* time.time() advances.  Only now - timestamp[t] of a registered, started task
\* with a timeout is ever read, so the clock is advanced only while such a
\* task has not yet exceeded its timeout and the status monitor can still
\* inspect it.
Tick ==
    /\ now < MaxTime
    /\ Alive
    /\ \E t \in tasks : Started(t) /\ timeout[t] # 0 /\ ~HasTimeout(t)
    /\ now' = now + 1
    /\ UNCHANGED <<config, state, task_queue, submitted, taskv, workerv, chanv,
                   schedv, monv, ppc, clientv, ghostv>>

\* ------------------------------------------------------------------- Next
Pids == 1..Len(procs)

Client ==
    \/ \E to \in Timeouts : Submit(to)
    \/ \E t \in Tasks : Cancel(t)
    \/ PoolStop
    \/ PoolStopPut
    \/ StopWorkers
    \/ StopWorkersStep

Scheduler == SchedGet \/ SchedRegister \/ SchedDispatch

Monitor ==
    \/ MonInspectTasks
    \/ MonExit
    \/ MonTaskDone
    \/ MonStopWorker
    \/ MonInspectWorkers
    \/ MonExpire
    \/ MonCreateWorkers

Pump == PumpAck \/ PumpResults \/ PumpNoMessage \/ PumpExit

Worker(w) ==
    \/ WorkerPoll(w)
    \/ WorkerAcquire(w)
    \/ WorkerRecv(w)
    \/ WorkerAck(w)
    \/ WorkerResults(w)
    \/ WorkerCrash(w)
    \/ WorkerExit(w)

Next ==
    \/ Client
    \/ Scheduler
    \/ Monitor
    \/ Pump
    \/ \E w \in Pids : Worker(w)
    \/ Tick

Spec == Init /\ [][Next]_vars

\* ------------------------------------------------- process_message alone
\* what the Task Registry can hold of one task: its worker tag, its start
\* timestamp, its result slot and whether it is registered (a resolved task is
\* not; an identity never registered, or never started, has no tag)
TaskHistories ==
    {h \in [tag : 0..MaxWorkers, stamp : 0..1, res : {<<>>, <<Value>>, <<TimeoutError>>},
            reg : BOOLEAN] :
        /\ (h.tag = Payload) <=> (h.stamp = 0)
        /\ h.res # <<>> => (h.stamp > 0 /\ ~h.reg)}

\* the messages the pump can find: none, an Acknowledgement, a Results
Messages ==
    {<<>>}
        \cup {<<Acknowledgement(w, t)>> : w \in 1..MaxWorkers, t \in Tasks}
        \cup {<<Results(t)>> : t \in Tasks}

\* the worker that sent message m: it executes the task it acknowledged
SenderOf(m, w) ==
    IF m # <<>> /\ m[1].type = "Ack" /\ m[1].worker = w
    THEN [pc |-> "exec", task |-> m[1].task, count |-> 1, exitcode |-> EX_OK]
    ELSE NewProc

\* a running pool with any Task Registry and any one message for
\* process_message; an Acknowledgement is for a task not yet started, a
\* Results for a started task
MessageInit ==
    /\ workers_number = MaxWorkers
    /\ task_limit = 0
    /\ state = "RUNNING"
    /\ task_queue = <<>>
    /\ submitted = MaxTasks
    /\ timeout = [t \in Tasks |-> 0]
    /\ cancelled = [t \in Tasks |-> FALSE]
    /\ \E h \in [Tasks -> TaskHistories] :
          /\ metadata = [t \in Tasks |-> h[t].tag]
          /\ timestamp = [t \in Tasks |-> h[t].stamp]
          /\ results = [t \in Tasks |-> h[t].res]
          /\ tasks = {t \in Tasks : h[t].reg}
          /\ sent = SetToSeq({t \in Tasks : h[t].reg \/ h[t].stamp > 0})
    /\ callbacks = Cardinality({t \in Tasks : results[t] # <<>>})
    /\ to_pool \in Messages
    /\ to_pool # <<>> =>
          (Started(to_pool[1].task) <=> to_pool[1].type = "Results")
    /\ workers = 1..MaxWorkers
    /\ procs = [w \in 1..MaxWorkers |-> SenderOf(to_pool, w)]
    /\ lock = Free
    /\ to_workers = <<>>
    /\ spc = "get"
    /\ stask = NoTask
    /\ mpc = "idle"
    /\ mtimeout = <<>>
    /\ mcancelled = <<>>
    /\ mtodo = <<>>
    /\ mstop = <<>>
    /\ mexpired = <<>>
    /\ ppc = "run"
    /\ cpc = "run"
    /\ cstop = <<>>
    /\ now = 1
    /\ taken = sent
    /\ acked = SetToSeq({t \in Tasks : Started(t)})

\* message_manager_loop of a running pool, by itself
MessageNext == PumpAck \/ PumpResults \/ PumpNoMessage

MessageSpec == MessageInit /\ [][MessageNext]_vars

\* every PID the pool can spawn: a worker is spawned at start or after a
\* worker has crashed, exited after its task limit, or been stopped
MaxPids == 2 * MaxWorkers + 2 * MaxTasks

\* The three pool threads and the worker processes are scheduled by the
\* operating system and the clock advances; Pool.stop() runs to its end once
\* called.  The client is under no obligation to submit, cancel, stop or join.
Fairness ==
    /\ WF_vars(Scheduler)
    /\ WF_vars(Monitor)
    /\ WF_vars(Pump)
    /\ WF_vars(Tick)
    /\ WF_vars(PoolStopPut)
    /\ \A w \in 1..MaxPids : WF_vars(w \in Pids /\ Worker(w))

FairSpec == Spec /\ Fairness

\* ================================================================= claims
Kinds(t) == {results[t][i].kind : i \in 1..Len(results[t])}

\* C1: the result slot of every task is set at most once, whatever the
\* interleaving of the message pump, the status monitor and the scheduler; a
\* task whose slot is set is no longer in the Task Registry, so the later of
\* two racing resolutions finds no entry.
C1_ResolvedOnce ==
    \A t \in Tasks : Len(results[t]) <= 1 /\ (t \in tasks => results[t] = <<>>)

\* C1 witness: the status monitor collected a task as timed out, the message
\* pump resolved it with its Results first, and the monitor's task_done has run.
C1_Witness ==
    /\ mpc = "stop"
    /\ \E t \in Range(mtimeout) : results[t] = <<Value>>

\* C4: a task resolved with Timeout, and a task inspect_tasks has selected as
\* timed out, was started, has a non-zero timeout, and the time since its start
\* timestamp is strictly greater than its timeout.
C4_TimeoutOnlyIfOverdue ==
    \A t \in Tasks :
        ("Timeout" \in Kinds(t) \/ t \in Range(mtimeout))
            => /\ Started(t)
               /\ timeout[t] # 0
               /\ now - timestamp[t] > timeout[t]

\* C4 witness: a task has been resolved with Timeout.
C4_Witness == \E t \in Tasks : results[t] = <<TimeoutError>>

\* The status monitor has finished the task_done loops of update_tasks.
AfterTaskDoneLoops == mpc = "stop"

\* C5 (as claimed): when the task_done loops of update_tasks end, every task
\* collected as cancelled is resolved with Cancelled and every task collected
\* as timed out with Timeout; Cancelled only for a started, cancelled task.
C5_Original ==
    /\ AfterTaskDoneLoops =>
          /\ \A t \in Range(mcancelled) : results[t] = <<TaskCancelled>>
          /\ \A t \in Range(mtimeout) : results[t] = <<TimeoutError>>
    /\ \A t \in Tasks : "Cancelled" \in Kinds(t) => Started(t) /\ cancelled[t]

\* C5 (amended): when the task_done loops of update_tasks end, every collected
\* task is resolved and out of the Task Registry; one collected as timed out
\* is resolved with Timeout, one collected as cancelled and not as timed out
\* with Cancelled, unless the message pump resolved it with its Results after
\* the scan; Cancelled only for a started task whose cancelled flag is set.
C5_CollectedResolved ==
    /\ AfterTaskDoneLoops =>
          /\ \A t \in Range(mtimeout) :
                t \notin tasks /\ results[t] \in {<<TimeoutError>>, <<Value>>}
          /\ \A t \in Range(mcancelled) \ Range(mtimeout) :
                t \notin tasks /\ results[t] \in {<<TaskCancelled>>, <<Value>>}
    /\ \A t \in Tasks : "Cancelled" \in Kinds(t) => Started(t) /\ cancelled[t]

\* C5 witness: update_tasks collected a task as cancelled and resolved it with
\* Cancelled.
C5_Witness ==
    /\ AfterTaskDoneLoops
    /\ \E t \in Range(mcancelled) : results[t] = <<TaskCancelled>>

IsPrefix(s, t) == Len(s) <= Len(t) /\ s = SubSeq(t, 1, Len(s))

Increasing(s) == \A i, j \in 1..Len(s) : i < j => s[i] < s[j]

\* C6: the NewTask messages are written in the order in which the scheduler
\* took the non-cancelled tasks from the Submission Queue, which is their
\* submission order (task identities are numbered in submission order), and
\* the Acknowledgements are sent in the order of the NewTask messages.
C6_FifoDispatch ==
    /\ IsPrefix(sent, taken)
    /\ Len(taken) <= Len(sent) + 1
    /\ Increasing(taken)
    /\ IsPrefix(acked, sent)

\* C6 witness: a single worker has acknowledged two tasks.
C6_Witness == workers_number = 1 /\ Len(acked) = 2 /\ Len(sent) = 2

\* C7: with task_limit = K > 0 a worker acknowledges at most K tasks, takes no
\* task after its K-th and, when it exits by itself then, exits with EX_OK;
\* with task_limit = 0 no worker ever leaves the task loop.
C7_TaskLimit ==
    /\ [](\A w \in Pids :
            /\ task_limit > 0 =>
                  /\ procs[w].count <= task_limit
                  /\ procs[w].count = task_limit => procs[w].pc \in {"exec", "exit"}
            /\ task_limit = 0 =>
                  /\ procs[w].pc # "exit"
                  /\ ~(procs[w].pc = "dead" /\ procs[w].exitcode = EX_OK))
    /\ [][\A w \in Pids :
            (procs[w].pc = "exit" /\ procs'[w].pc = "dead" /\ w \in workers')
                => procs'[w].exitcode = EX_OK]_vars

\* C7 witness: with task_limit = 1 a worker has exited with EX_OK after its
\* task, and a second task waits on the channel for another worker.
C7_Witness ==
    /\ task_limit = 1
    /\ to_workers # <<>>
    /\ \E w \in Pids : procs[w].pc = "dead" /\ procs[w].exitcode = EX_OK

Unreported(w) ==
    /\ w \notin workers
    /\ \A i \in 1..Len(mexpired) : mexpired[i][1] # w

\* worker w crashed while it owned task t: it acknowledged t and no Results
\* for t was sent
CrashedOwning(w, t) ==
    /\ procs[w] = Dead(EXIT_CRASH)
    /\ \/ metadata[t] = w
       \/ \E i \in 1..Len(to_pool) : to_pool[i] = Acknowledgement(w, t)
    /\ \A i \in 1..Len(to_pool) : to_pool[i] # Results(t)
    /\ "Value" \notin Kinds(t)

\* C2 (as claimed): while the pool runs, a task whose payload made its worker
\* exit is resolved: it is not left with nothing to resolve it (no timeout, not
\* cancelled, its worker gone from the Worker Registry and from the report of
\* update_workers).
C2_Original ==
    \A t \in Tasks : \A w \in Pids :
        (/\ Alive
         /\ CrashedOwning(w, t)
         /\ Unreported(w)
         /\ timeout[t] = 0
         /\ ~cancelled[t])
            => results[t] # <<>>

\* a task the pool can no longer resolve unless the client cancels it
Orphan(t) ==
    /\ t \in tasks
    /\ timeout[t] = 0
    /\ ~cancelled[t]
    /\ \E w \in Pids : CrashedOwning(w, t) /\ Unreported(w)

\* an orphan stays in the Task Registry for as long as it is not cancelled
OrphanStays == [][\A t \in Tasks : (Orphan(t) /\ ~cancelled'[t]) => Orphan(t)']_vars

\* C3 (as claimed): once update_workers has removed a worker that exited with
\* a non-success code c while owning task t, t is resolved with
\* ProcessExpired(c), whether the message pump processed the Acknowledgement
\* before or after (t has no timeout and is not cancelled).
C3_Original ==
    \A t \in Tasks : \A w \in Pids :
        (/\ Alive
         /\ CrashedOwning(w, t)
         /\ Unreported(w)
         /\ timeout[t] = 0
         /\ ~cancelled[t])
            => results[t] = <<ProcessExpired(EXIT_CRASH)>>

\* C9 (as claimed): every stop_worker call of stop_workers leaves its worker
\* stopped and out of the Worker Registry.
C9_Original ==
    [][(cpc = "stopping" /\ cstop' = Tail(cstop))
         => /\ Head(cstop) \notin workers'
            /\ procs'[Head(cstop)].pc = "dead"]_vars

\* the task was taken from the Submission Queue with its cancelled flag set
Dropped(t) ==
    /\ t <= submitted
    /\ t \notin Range(task_queue)
    /\ t \notin Range(taken)

\* C10: a task that is cancelled when the scheduler takes it is never
\* registered, never dispatched and never resolved by the pool; taking it, like
\* taking the sentinel, calls the queue's task_done once and ends the loop.
C10_CancelledDropped ==
    /\ [](\A t \in Tasks : Dropped(t) =>
            /\ cancelled[t]
            /\ t \notin tasks
            /\ t \notin Range(sent)
            /\ \A i \in 1..Len(to_workers) : to_workers[i].id # t
            /\ results[t] = <<>>
            /\ spc = "done")
    /\ [][(/\ spc = "get"
           /\ task_queue # <<>>
           /\ task_queue' = Tail(task_queue)
           /\ (Head(task_queue) = Sentinel \/ cancelled[Head(task_queue)]))
            => /\ callbacks' = callbacks + 1
               /\ spc' = "done"
               /\ UNCHANGED <<tasks, to_workers, sent, taken>>]_vars

\* C10 witness: the scheduler has dropped a cancelled task and ended its loop
\* while the pool is running and a later task waits in the queue.
C10_Witness ==
    /\ spc = "done"
    /\ Alive
    /\ callbacks = 1
    /\ Dropped(1)
    /\ task_queue = <<2>>

\* C11 (as claimed): while the pool is running, a task that waits on the
\* Submission Queue and is not cancelled is eventually taken by the scheduler
\* for PoolManager.schedule, whatever precedes it in the queue.
C11_Original ==
    \A t \in Tasks :
        (t \in Range(task_queue) /\ ~cancelled[t] /\ Alive)
            ~> (t \in Range(taken) \/ cancelled[t] \/ ~Alive)

\* worker w is inside task_transaction
InTransaction(w) == procs[w].pc \in {"recv", "ack"}

\* the task identities received and not yet acknowledged
Receiving == SetToSeq({procs[w].task : w \in {v \in Pids : procs[v].pc = "ack"}})

\* the task identities of the NewTask messages on the channel
ChannelIds == [i \in 1..Len(to_workers) |-> to_workers[i].id]

NoDuplicates(s) == \A i, j \in 1..Len(s) : s[i] = s[j] => i = j

\* C12: at most one worker at a time is inside the task transaction, and it
\* is the holder of the workers-side lock; every NewTask written is on the
\* channel, or received by the one worker in its transaction, or acknowledged,
\* each exactly once; no task identity is held or acknowledged by two workers;
\* a worker begins to execute only in the step that puts its Acknowledgement
\* on the channel.
C12_OneReceiver ==
    /\ [](/\ \A w1, w2 \in Pids :
                (InTransaction(w1) /\ InTransaction(w2)) => w1 = w2
          /\ \A w \in Pids : InTransaction(w) <=> lock = w
          /\ lock \in Pids \cup {Free}
          /\ sent = acked \o Receiving \o ChannelIds
          /\ NoDuplicates(sent)
          /\ \A w1, w2 \in Pids :
                (procs[w1].task # NoTask /\ procs[w1].task = procs[w2].task)
                    => w1 = w2
          /\ \A i, j \in 1..Len(to_pool) :
                (/\ to_pool[i].type = "Ack"
                 /\ to_pool[j].type = "Ack"
                 /\ to_pool[i].task = to_pool[j].task) => i = j)
    /\ [][\A w \in Pids :
            (procs[w].pc # "exec" /\ procs'[w].pc = "exec")
                => /\ procs[w].pc = "ack"
                   /\ to_pool' = Append(to_pool,
                                        Acknowledgement(w, procs'[w].task))]_vars

\* C12 witness: one worker has received the NewTask under the lock and has
\* not yet acknowledged it, while a second worker, woken by the same poll,
\* waits for the lock.
C12_Witness ==
    \E w1, w2 \in Pids :
        /\ procs[w1].pc = "ack"
        /\ lock = w1
        /\ procs[w2].pc = "lock"

\* the message pump takes the message at the head of the pool-side channel
PumpTakes(type, t) ==
    /\ ppc = "run"
    /\ to_pool # <<>>
    /\ to_pool' = Tail(to_pool)
    /\ Head(to_pool).type = type
    /\ Head(to_pool).task = t

\* task t has been in the Task Registry
WasRegistered(t) == t \in tasks \/ results[t] # <<>>

\* C13: on the channel to the pool the Acknowledgement of a task is ahead of
\* its Results, and when the message pump takes Results(T) the
\* Acknowledgement of T was sent and is no longer on the channel, so the pump
\* took it before; a task is in the Task Registry when its NewTask is written,
\* so every task written, acknowledged, started or reported was registered
\* before.
C13_AckBeforeResults ==
    /\ [](\A t \in Tasks :
            /\ \A j \in 1..Len(to_pool) :
                  (to_pool[j].type = "Results" /\ to_pool[j].task = t)
                      => /\ t \in Range(acked)
                         /\ \A i \in 1..Len(to_pool) :
                               (to_pool[i].type = "Ack" /\ to_pool[i].task = t)
                                   => i < j
            /\ (Started(t) \/ "Value" \in Kinds(t)) => t \in Range(acked)
            /\ "Value" \in Kinds(t) => Started(t)
            /\ t \in Range(acked) => t \in Range(sent)
            /\ t \in Range(ChannelIds) => t \in Range(sent)
            /\ t \in Range(sent) => WasRegistered(t))
    /\ [][\A t \in Tasks :
            PumpTakes("Results", t)
                => /\ t \in Range(acked)
                   /\ \A i \in 1..Len(to_pool) :
                         ~(to_pool[i].type = "Ack" /\ to_pool[i].task = t)]_vars
    /\ [][\A t \in Tasks :
            (PumpTakes("Ack", t) \/ PumpTakes("Results", t))
                => WasRegistered(t)]_vars
    /\ [][sent' # sent => sent'[Len(sent')] \in tasks]_vars

\* C13 witness: the message pump has taken the Acknowledgement and then the
\* Results of task 1; the Acknowledgement of task 2 is still on the channel,
\* behind the Results of task 1 and not ahead of them.
C13_Witness ==
    /\ Started(1)
    /\ results[1] = <<Value>>
    /\ to_pool # <<>>
    /\ Head(to_pool).type = "Ack"
    /\ Head(to_pool).task = 2

\* the step terminates worker w, as stop() does
Stopped(w) == IsAlive(w) /\ procs'[w] = Dead(-SIGTERM)

\* C14: a worker is terminated by stop_worker only in a step in which no
\* worker holds the workers-side lock, so never between its taking the lock
\* and its Acknowledgement; the holder of the lock is always a live worker.
C14_StopOutsideTransaction ==
    /\ [](\A w \in Pids : lock = w => IsAlive(w))
    /\ [][\A w \in Pids :
            Stopped(w) => /\ lock = Free
                          /\ lock' = Free
                          /\ ~InTransaction(w)]_vars

\* C14 witness: stop_workers has called stop_worker for every worker of the
\* start, and a worker that has received a NewTask and holds the lock is
\* still alive and in the Worker Registry.
C14_Witness ==
    /\ cpc = "done"
    /\ Len(procs) = workers_number
    /\ \E w \in workers : lock = w /\ procs[w].pc = "ack"

\* update_tasks has resolved task t
ResolvedByUpdateTasks(t) == results[t] \in {<<TimeoutError>>, <<TaskCancelled>>}

\* the worker of t's worker tag is terminated and out of the Worker Registry
TagStopped(t) ==
    /\ metadata[t] \in Pids
    /\ metadata[t] \notin workers
    /\ ~IsAlive(metadata[t])

\* C15 (as claimed): while the pool is running, once update_tasks has resolved
\* a task with Timeout or Cancelled, the worker of its worker tag is
\* eventually terminated and removed from the Worker Registry.
C15_Original ==
    \A t \in Tasks : ResolvedByUpdateTasks(t) ~> (TagStopped(t) \/ ~Alive)

\* what process_message can change of the tasks
RegistryView == <<tasks, results, metadata, timestamp, callbacks>>

\* C16: a step of the message pump that finds no message, or takes an
\* Acknowledgement or a Results whose task identity is not in the Task
\* Registry, leaves the registry, every result slot, worker tag and start
\* timestamp and the count of task-done callbacks as they were.
C16_MissingEntryNoEffect ==
    [][/\ (ppc = "run" /\ to_pool = <<>> /\ to_pool' = <<>>)
            => UNCHANGED RegistryView
       /\ \A t \in Tasks :
            ((PumpTakes("Ack", t) \/ PumpTakes("Results", t)) /\ t \notin tasks)
                => UNCHANGED RegistryView]_vars

\* C16 witness: the pump has taken the Acknowledgement of a worker for a task
\* identity that is not in the Task Registry (the worker executes it, the
\* channel is empty), and the task has no tag and no timestamp.
C16_Witness ==
    /\ to_pool = <<>>
    /\ \E w \in Pids :
          /\ procs[w].pc = "exec"
          /\ procs[w].task \notin tasks
          /\ ~Started(procs[w].task)
          /\ metadata[procs[w].task] = Payload
          /\ results[procs[w].task] = <<>>

\* the exit codes a process of the model can end with
ExitCodes == {EX_OK, EXIT_CRASH, -SIGTERM}

\* C17: a task resolved with ProcessExpired(c) carries the tag of a worker
\* that is not alive, exited with c, c not EX_OK, and is out of the Worker
\* Registry; update_workers reports only such workers; inspect_workers
\* removes a worker that exited with EX_OK, does not report it and resolves
\* no task.
C17_ExpiredOnlyAbnormal ==
    /\ [](/\ \A t \in Tasks : \A c \in ExitCodes :
                ProcessExpired(c) \in Range(results[t])
                    => /\ c # EX_OK
                       /\ metadata[t] \in Pids \ workers
                       /\ procs[metadata[t]] = Dead(c)
          /\ \A i \in 1..Len(mexpired) :
                /\ mexpired[i][2] # EX_OK
                /\ mexpired[i][1] \in Pids \ workers
                /\ procs[mexpired[i][1]] = Dead(mexpired[i][2]))
    /\ [][(mpc = "workers" /\ mpc' # "workers")
            => /\ \A w \in workers :
                    (~IsAlive(w) /\ procs[w].exitcode = EX_OK)
                        => /\ w \notin workers'
                           /\ \A i \in 1..Len(mexpired') : mexpired'[i][1] # w
               /\ UNCHANGED <<tasks, results>>]_vars

\* C17 witness: a worker that exited with EX_OK after task 1 was removed and
\* task 1 has its value; the worker of task 2 crashed and task 2 is resolved
\* with ProcessExpired.
C17_Witness ==
    /\ results[2] = <<ProcessExpired(EXIT_CRASH)>>
    /\ results[1] = <<Value>>
    /\ metadata[1] \in Pids \ workers
    /\ procs[metadata[1]] = Dead(EX_OK)

\* stop_worker(w) raises TimeoutError or KeyError inside its try
StopWorkerFails(w) == lock # Free \/ w \notin workers

\* C18: a stop_worker call that cannot take the workers-side lock, or whose
\* PID is not in the Worker Registry, changes neither the registry nor any
\* process, and its caller goes on: update_tasks to the next worker tag or to
\* update_workers, stop_workers to the next worker or to its end.
C18_StopWorkerBestEffort ==
    [][/\ (mpc = "stop" /\ mstop' # mstop /\ StopWorkerFails(Head(mstop)))
            => /\ UNCHANGED <<workers, procs, lock>>
               /\ mstop' = Tail(mstop)
               /\ mpc' = IF Tail(mstop) = <<>> THEN "workers" ELSE "stop"
       /\ (cpc = "stopping" /\ cstop' # cstop /\ StopWorkerFails(Head(cstop)))
            => /\ UNCHANGED <<workers, procs, lock>>
               /\ cstop' = Tail(cstop)
               /\ cpc' = IF Tail(cstop) = <<>> THEN "done" ELSE "stopping"]_vars

\* C18 witness: update_tasks resolved a task with Timeout, its stop_worker
\* call found the lock held, and update_tasks has returned with the tagged
\* worker alive and in the Worker Registry.
C18_Witness ==
    /\ mpc = "workers"
    /\ lock # Free
    /\ \E t \in Tasks :
          /\ results[t] = <<TimeoutError>>
          /\ metadata[t] \in workers
          /\ IsAlive(metadata[t])

\* the tasks update_tasks collected in this round
Collected == Range(mtimeout) \cup Range(mcancelled)

\* C19 (as claimed): a stop_worker call of update_tasks never terminates a
\* worker that is executing a task other than the ones update_tasks has just
\* resolved.
C19_Original ==
    [][\A w \in Pids :
        (mpc = "stop" /\ mstop' # mstop /\ Stopped(w))
            => ~(procs[w].pc = "exec" /\ procs[w].task \notin Collected)]_vars

\* C20 (as claimed): a worker that holds the workers-side lock and is about
\* to receive finds a NewTask on the channel.
C20_Original ==
    \A w \in Pids : (lock = w /\ procs[w].pc = "recv") => to_workers # <<>>

\* every Acknowledgement on the channel to the pool is for a registered task
AckRegistered ==
    \A i \in 1..Len(to_pool) :
        to_pool[i].type = "Ack" => to_pool[i].task \in tasks

====
